---------------------------- MODULE Spec2Model ----------------------------
(***************************************************************************)
(* The FaceCapture component in its four variants:                         *)
(*   "FaceCapture"  src/src/components/FaceCapture.tsx                     *)
(*   "part_000"     src/unnamed/part_000                                   *)
(*   "part_001"     src/unnamed/part_001                                   *)
(*   "part_002"     src/unnamed/part_002                                   *)
(*                                                                         *)
(* React state and refs are the variables.  A state update, the re-render  *)
(* it causes and the effects whose dependencies changed (cleanup, then     *)
(* body) are one step.  requestAnimationFrame callbacks, the detector      *)
(* load, the camera stream and the still-image decode are separate steps.  *)
(*                                                                         *)
(* Numbers are exact: the code's floating point divisions and square root  *)
(* are compared as rationals (cross multiplied), never rounded.            *)
(***************************************************************************)
EXTENDS Integers, Sequences, FiniteSets, TLC

VARIABLES
    variant,            \* which of the four source files the component is
    mounted,            \* the component is mounted
    loadState,          \* createFaceLandmarker: "loading", "loaded", "failed"
    faceLandmarker,     \* the ref (or state): "null", "open", "closed"
    closeCount,         \* how many times close() has been called
    modelsLoaded,       \* useState
    isWebcamReady,      \* useState (not in part_001)
    isFaceAligned,      \* useState
    capturedImage,      \* useState: NoImage or an image record
    userMessage,        \* useState (part_002 only)
    debugInfo,          \* useState (not in part_001)
    hasUserMedia,       \* the mounted Webcam holds a stream
    video,              \* the video element's frame: NoVideo or <<w, h>>
    animationFrameId,   \* the ref: 0 (null) or the last id requested
    rafQueue,           \* pending animation frame callbacks
    decodes,            \* still images being decoded (image.onload pending)
    captureCount,       \* capture requests made so far
    camera,             \* the frame size the camera delivers, <<w, h>>
    scene,              \* the faces in front of the camera, in frame pixels
    accepted,           \* history: handleUsePhoto ran with a captured image
    stopped,            \* history: a cancellation point has passed, no restart since
    tickAfterStop,      \* history: predictWebcam ran while stopped
    runVerdict,         \* history: what the current scheduler run last published
    lastCapturePhase,   \* history: the phase in which the last screenshot was taken
    retaken,            \* history: handleRetake ran, no capture request since
    lastTick            \* history: what the last predictWebcam call did

vars == << variant, mounted, loadState, faceLandmarker, closeCount,
           modelsLoaded, isWebcamReady, isFaceAligned, capturedImage,
           userMessage, debugInfo, hasUserMedia, video, animationFrameId,
           rafQueue, decodes, captureCount, camera, scene, accepted, stopped,
           tickAfterStop,
           runVerdict, lastCapturePhase, retaken, lastTick >>

Variants == {"FaceCapture", "part_000", "part_001", "part_002"}

UsesEffect(v) == v # "part_001"
Crops(v) == v \in {"FaceCapture", "part_002"}

-----------------------------------------------------------------------------
(* Configuration.  Decimal constants are kept as integers times 10 or 100. *)

FC_RADIUS_FACTOR_x10 == 28
P0_RADIUS_FACTOR_x10 == 40
P2_GUIDELINE_DIAMETER_RATIO_x10 == 5
MIN_FACE_SCALE_x10 == 6
MAX_FACE_SCALE_x10 == 10
CENTER_OFFSET_THRESHOLD_x10 == 1
WIDTH_FACTOR_x100 == 480
HEIGHT_FACTOR_x100 == 384
MAX_CENTER_DISTANCE == 50
MIN_WIDTH_RATIO_x10 == 6
MAX_WIDTH_RATIO_x10 == 10
MIN_HEIGHT_RATIO_x10 == 6
MAX_HEIGHT_RATIO_x10 == 10
P1_CANVAS_WIDTH == 640
P1_CANVAS_HEIGHT == 480
SCREENSHOT_WIDTH == 1920
SCREENSHOT_HEIGHT == 1080

\* numFaces given to FaceLandmarker.createFromOptions
numFaces(v) == IF v = "part_002" THEN 2 ELSE 1

-----------------------------------------------------------------------------
(* Rationals as <<numerator, denominator>> with a positive denominator.    *)

RatLT(p, q) == p[1] * q[2] < q[1] * p[2]
RatEQ(p, q) == p[1] * q[2] = q[1] * p[2]

SetMin(S) == CHOOSE m \in S : \A k \in S : m <= k
SetMax(S) == CHOOSE m \in S : \A k \in S : m >= k


-----------------------------------------------------------------------------
(* The detector and the per-frame alignment evaluation of predictWebcam.   *)
(*                                                                         *)
(* A face in the scene is a set of points in pixels of the video frame.    *)
(* The detector returns normalized landmarks: a point's x is its numerator *)
(* over the frame width, its y over the frame height (den).  It returns at *)
(* most numFaces landmark sets.                                            *)

NoVideo == << 0, 0 >>

Normalize(face) == { [x |-> p.x, y |-> p.y] : p \in face }

detectForVideo(v, vid, sc) ==
    [ den |-> vid,
      faceLandmarks |->
          [ i \in 1 .. (IF Len(sc) < numFaces(v) THEN Len(sc) ELSE numFaces(v))
              |-> Normalize(sc[i]) ] ]

\* landmarks.map((p) => p.x * videoWidth), landmarks.map((p) => p.y * videoHeight)
ScaleX(p, results, videoWidth) == (p.x * videoWidth) \div results.den[1]
ScaleY(p, results, videoHeight) == (p.y * videoHeight) \div results.den[2]

\* minX .. faceCenterY; the centre is kept doubled (2 * faceCenterX)
FaceBox(landmarks, results, videoWidth, videoHeight) ==
    LET xs == { ScaleX(p, results, videoWidth) : p \in landmarks }
        ys == { ScaleY(p, results, videoHeight) : p \in landmarks }
        minX == SetMin(xs)
        maxX == SetMax(xs)
        minY == SetMin(ys)
        maxY == SetMax(ys)
        faceWidth == maxX - minX
        faceHeight == maxY - minY
    IN  [ faceWidth |-> faceWidth, faceHeight |-> faceHeight,
          faceCenterX2 |-> 2 * minX + faceWidth,
          faceCenterY2 |-> 2 * minY + faceHeight ]

\* const visibleSize = videoHeight
visibleSize(videoWidth, videoHeight) == videoHeight

\* const offsetX = (videoWidth - visibleSize) / 2, doubled
offsetX2(videoWidth, vs) == videoWidth - vs

\* centerX, centerY, doubled: the middle of the video frame, and in part_001
\* the middle of the canvas element
GuidelineCentre2(v, videoWidth, videoHeight) ==
    IF v = "part_001"
    THEN << P1_CANVAS_WIDTH, P1_CANVAS_HEIGHT >>
    ELSE << videoWidth, videoHeight >>

\* guidelineRadius * 2, as a rational
GuidelineDiameter(v, vs) ==
    CASE v = "FaceCapture" -> << 2 * 10 * vs, FC_RADIUS_FACTOR_x10 >>
      [] v = "part_000"    -> << 2 * 10 * vs, P0_RADIUS_FACTOR_x10 >>
      [] v = "part_002"    -> << vs * P2_GUIDELINE_DIAMETER_RATIO_x10, 10 >>

\* an edge check that takes the right half of the frame for the visible area
InVisibleAreaRightHalf(box, videoWidth, vs) ==
    /\ box.faceCenterX2 > videoWidth
    /\ box.faceCenterX2 < 2 * videoWidth - offsetX2(videoWidth, vs)

\* faceCenterX > offsetX && faceCenterX < videoWidth - offsetX,
\* offsetX = (videoWidth - visibleSize) / 2; all doubled
InVisibleArea(box, videoWidth, vs) ==
    /\ box.faceCenterX2 > offsetX2(videoWidth, vs)
    /\ box.faceCenterX2 < 2 * videoWidth - offsetX2(videoWidth, vs)

\* a distance check that admits the maximum offset itself
DistanceOkInclusive(dx2, dy2, vs) ==
    (dx2 * dx2 + dy2 * dy2) * (10 * 10)
        <= 4 * (vs * CENTER_OFFSET_THRESHOLD_x10) * (vs * CENTER_OFFSET_THRESHOLD_x10)

\* a distance check that looks at the horizontal offset only
DistanceOkHorizontal(dx2, dy2, vs) ==
    (dx2 * dx2) * (10 * 10)
        < 4 * (vs * CENTER_OFFSET_THRESHOLD_x10) * (vs * CENTER_OFFSET_THRESHOLD_x10)

\* distance < maxDistance, maxDistance = visibleSize * CENTER_OFFSET_THRESHOLD;
\* dx2, dy2 are the doubled centre differences, both sides squared
DistanceOk(dx2, dy2, vs) ==
    (dx2 * dx2 + dy2 * dy2) * (10 * 10)
        < 4 * (vs * CENTER_OFFSET_THRESHOLD_x10) * (vs * CENTER_OFFSET_THRESHOLD_x10)

\* faceScale = (faceWidth + faceHeight) / 2 / (guidelineRadius * 2)
faceScale(v, box, vs) ==
    LET d == GuidelineDiameter(v, vs)
    IN  << (box.faceWidth + box.faceHeight) * d[2], 2 * d[1] >>

\* a scale check that admits the ends of the range
ScaleOkInclusive(v, box, vs) ==
    /\ ~RatLT(faceScale(v, box, vs), << MIN_FACE_SCALE_x10, 10 >>)
    /\ ~RatLT(<< MAX_FACE_SCALE_x10, 10 >>, faceScale(v, box, vs))

\* a scale check without the upper end of the range
ScaleOkMinOnly(v, box, vs) ==
    RatLT(<< MIN_FACE_SCALE_x10, 10 >>, faceScale(v, box, vs))

\* faceScale > MIN_FACE_SCALE && faceScale < MAX_FACE_SCALE
ScaleOk(v, box, vs) ==
    /\ RatLT(<< MIN_FACE_SCALE_x10, 10 >>, faceScale(v, box, vs))
    /\ RatLT(faceScale(v, box, vs), << MAX_FACE_SCALE_x10, 10 >>)

\* user-visible texts, by tag
MsgLoading == "loading-models"       \* '얼굴 인식 모델을 불러오는 중...'
MsgCamera == "preparing-camera"      \* '카메라를 준비하는 중...'
MsgCaptured == "captured-photo"      \* '촬영된 사진'
MsgAlign == "fit-face-to-guideline"  \* '얼굴을 가이드라인에 맞춰주세요'
MsgReady == "ready-press-capture"    \* '준비 완료! 촬영 버튼을 누르세요.'
MsgMultiple == "one-person-only"     \* '한 명만 화면에 나오도록 해주세요.'
DbgMetrics == "D-S-metrics"          \* `D: .../... | S: ...`
DbgEdge == "move-face-to-centre"     \* '얼굴이 중앙에 오도록 조절해주세요.'
DbgNoFace == "no-face-recognised"    \* '얼굴을 인식할 수 없습니다.'
DbgMultiple == "n-faces-detected"    \* `${detectedFacesCount}개의 얼굴이 감지되었습니다.`
Keep == "keep"                       \* the setter is not called

\* the single face branch of FaceCapture.tsx, part_000 and part_002
EvaluateFace(v, landmarks, results, videoWidth, videoHeight) ==
    LET vs == visibleSize(videoWidth, videoHeight)
        box == FaceBox(landmarks, results, videoWidth, videoHeight)
        dx2 == box.faceCenterX2 - GuidelineCentre2(v, videoWidth, videoHeight)[1]
        dy2 == box.faceCenterY2 - GuidelineCentre2(v, videoWidth, videoHeight)[2]
    IN  IF InVisibleArea(box, videoWidth, vs)
        THEN IF DistanceOk(dx2, dy2, vs) /\ ScaleOk(v, box, vs)
             THEN [ faceAligned |-> TRUE, debugInfo |-> DbgMetrics,
                    userMessage |-> IF v = "part_002" THEN MsgReady ELSE Keep ]
             ELSE [ faceAligned |-> FALSE, debugInfo |-> DbgMetrics,
                    userMessage |-> IF v = "part_002" THEN MsgAlign ELSE Keep ]
        ELSE [ faceAligned |-> FALSE, debugInfo |-> DbgEdge, userMessage |-> Keep ]

\* an ellipse evaluation that checks the average of the two ratios
EvaluateEllipseAverage(landmarks, results, videoWidth, videoHeight) ==
    LET box == FaceBox(landmarks, results, videoWidth, videoHeight)
        dx2 == box.faceCenterX2 - P1_CANVAS_WIDTH
        dy2 == box.faceCenterY2 - P1_CANVAS_HEIGHT
        avg == << 15 * box.faceWidth + 16 * box.faceHeight, 8000 >>
    IN  [ faceAligned |->
              /\ dx2 * dx2 + dy2 * dy2
                    < 4 * MAX_CENTER_DISTANCE * MAX_CENTER_DISTANCE
              /\ RatLT(<< MIN_WIDTH_RATIO_x10, 10 >>, avg)
              /\ RatLT(avg, << MAX_WIDTH_RATIO_x10, 10 >>),
          debugInfo |-> Keep, userMessage |-> Keep ]

\* part_001: distance and per-axis ratios against the canvas-sized ellipse
EvaluateEllipse(landmarks, results, videoWidth, videoHeight) ==
    LET box == FaceBox(landmarks, results, videoWidth, videoHeight)
        centre2 == GuidelineCentre2("part_001", videoWidth, videoHeight)
        dx2 == box.faceCenterX2 - centre2[1]
        dy2 == box.faceCenterY2 - centre2[2]
        \* faceWidth / (radiusX * 2), radiusX = canvas.width / WIDTH_FACTOR
        widthRatio == << box.faceWidth * WIDTH_FACTOR_x100,
                         2 * 100 * P1_CANVAS_WIDTH >>
        heightRatio == << box.faceHeight * HEIGHT_FACTOR_x100,
                          2 * 100 * P1_CANVAS_HEIGHT >>
    IN  [ faceAligned |->
              /\ dx2 * dx2 + dy2 * dy2
                    < 4 * MAX_CENTER_DISTANCE * MAX_CENTER_DISTANCE
              /\ RatLT(<< MIN_WIDTH_RATIO_x10, 10 >>, widthRatio)
              /\ RatLT(widthRatio, << MAX_WIDTH_RATIO_x10, 10 >>)
              /\ RatLT(<< MIN_HEIGHT_RATIO_x10, 10 >>, heightRatio)
              /\ RatLT(heightRatio, << MAX_HEIGHT_RATIO_x10, 10 >>),
          debugInfo |-> Keep, userMessage |-> Keep ]

\* an evaluation that always takes the first landmark set
EvaluateFirstFace(v, results, videoWidth, videoHeight) ==
    IF Len(results.faceLandmarks) > 0
    THEN IF v = "part_001"
         THEN EvaluateEllipse(results.faceLandmarks[1], results,
                              videoWidth, videoHeight)
         ELSE EvaluateFace(v, results.faceLandmarks[1], results,
                           videoWidth, videoHeight)
    ELSE [ faceAligned |-> FALSE, debugInfo |-> DbgNoFace, userMessage |-> Keep ]

\* an evaluation that says nothing when there is no face
EvaluateSilentNoFace(v, results, videoWidth, videoHeight) ==
    IF Len(results.faceLandmarks) = 0
    THEN [ faceAligned |-> FALSE, debugInfo |-> Keep, userMessage |-> Keep ]
    ELSE IF v = "part_001"
    THEN EvaluateEllipse(results.faceLandmarks[1], results,
                         videoWidth, videoHeight)
    ELSE IF v = "part_002" /\ Len(results.faceLandmarks) > 1
    THEN [ faceAligned |-> FALSE, debugInfo |-> DbgMultiple,
           userMessage |-> MsgMultiple ]
    ELSE EvaluateFace(v, results.faceLandmarks[1], results,
                      videoWidth, videoHeight)

\* the sizes a tick computes before it evaluates a face: visibleSize, offsetX
\* (doubled), the guideline centre (doubled) and the horizontal guideline
\* diameter as a rational; part_001 computes no visible size and takes the
\* ellipse from the canvas element (radiusX = canvas.width / WIDTH_FACTOR)
Geometry(v, videoWidth, videoHeight) ==
    IF v = "part_001"
    THEN [ visibleSize |-> 0, offsetX2 |-> 0,
           centre2 |-> GuidelineCentre2(v, videoWidth, videoHeight),
           diameter |-> << 2 * 100 * P1_CANVAS_WIDTH, WIDTH_FACTOR_x100 >> ]
    ELSE [ visibleSize |-> visibleSize(videoWidth, videoHeight),
           offsetX2 |-> offsetX2(videoWidth, visibleSize(videoWidth, videoHeight)),
           centre2 |-> GuidelineCentre2(v, videoWidth, videoHeight),
           diameter |-> GuidelineDiameter(v, visibleSize(videoWidth, videoHeight)) ]

NoGeometry == [ visibleSize |-> 0, offsetX2 |-> 0, centre2 |-> << 0, 0 >>,
                diameter |-> << 0, 1 >> ]

\* the branches on the number of landmark sets; the result is what the tick
\* hands to setIsFaceAligned, setDebugInfo and setUserMessage
Evaluate(v, results, videoWidth, videoHeight) ==
    LET n == Len(results.faceLandmarks)
    IN  CASE v = "part_001" ->
               IF n > 0
               THEN EvaluateEllipse(results.faceLandmarks[1], results,
                                    videoWidth, videoHeight)
               ELSE [ faceAligned |-> FALSE, debugInfo |-> Keep,
                      userMessage |-> Keep ]
          [] v = "part_002" ->
               IF n = 1
               THEN EvaluateFace(v, results.faceLandmarks[1], results,
                                 videoWidth, videoHeight)
               ELSE IF n > 1
               THEN [ faceAligned |-> FALSE, debugInfo |-> DbgMultiple,
                      userMessage |-> MsgMultiple ]
               ELSE [ faceAligned |-> FALSE, debugInfo |-> DbgNoFace,
                      userMessage |-> MsgAlign ]
          [] OTHER ->
               IF n > 0
               THEN EvaluateFace(v, results.faceLandmarks[1], results,
                                 videoWidth, videoHeight)
               ELSE [ faceAligned |-> FALSE, debugInfo |-> DbgNoFace,
                      userMessage |-> Keep ]


-----------------------------------------------------------------------------
(* Scenes: a face is given by its doubled centre and its width and height. *)

MaxCaptures == 3

Face(cx2, cy2, w, h) ==
    { [x |-> (cx2 - w) \div 2, y |-> (cy2 - h) \div 2],
      [x |-> (cx2 + w) \div 2, y |-> (cy2 + h) \div 2] }

\* the point the variant measures the distance from, doubled
Centre2(v, cam) ==
    IF v = "part_001" THEN << P1_CANVAS_WIDTH, P1_CANVAS_HEIGHT >> ELSE cam

\* a face that fills the guideline, and the same face far off the centre
GoodFace(v, cam) ==
    IF v = "part_001"
    THEN Face(Centre2(v, cam)[1], Centre2(v, cam)[2], 200, 200)
    ELSE Face(cam[1], cam[2], (9 * cam[2]) \div 20, (9 * cam[2]) \div 20)

FarFace(v, cam) ==
    IF v = "part_001"
    THEN Face(Centre2(v, cam)[1] + 240, Centre2(v, cam)[2], 200, 200)
    ELSE Face(cam[1] + (cam[2] \div 2), cam[2], (9 * cam[2]) \div 20,
              (9 * cam[2]) \div 20)

\* a small face in the middle of the right margin, outside the visible square
EdgeFace(v, cam) ==
    Face(2 * cam[1] - ((cam[1] - cam[2]) \div 2), cam[2],
         (cam[1] - cam[2]) \div 4, (cam[1] - cam[2]) \div 4)

SessionFrames == { << 1280, 720 >>, << 640, 480 >> }

SessionScenes(v, cam) ==
    { << >>, << GoodFace(v, cam) >>, << FarFace(v, cam) >>,
      << EdgeFace(v, cam) >>, << GoodFace(v, cam), FarFace(v, cam) >> }

-----------------------------------------------------------------------------
(* The browser's animation frame queue.                                    *)

Ids(q) == { e.id : e \in q }

\* requestAnimationFrame returns an id that names no other pending callback
\* and differs from the one the ref holds
NewId(q, cur) ==
    CHOOSE n \in 1 .. (Cardinality(q) + 2) :
        /\ n \notin Ids(q) \cup {cur}
        /\ \A m \in 1 .. (n - 1) : m \in Ids(q) \cup {cur}

\* requestAnimationFrame(predictWebcam); fl is the faceLandmarker the
\* callback closed over (part_001; the others read the ref when they run)
Request(q, cur, fl) == q \cup { [id |-> NewId(q, cur), fl |-> fl] }

\* a cancel that cancels nothing
CancelNothing(q, cur) == q

\* if (animationFrameId.current) cancelAnimationFrame(animationFrameId.current)
Cancel(q, cur) == { e \in q : e.id # cur }

\* a stored image: the capture request it came from, how it was made, and
\* for a crop its side and the doubled source offsets of drawImage
NoImage == [req |-> 0, kind |-> "none", size |-> 0, offsetX2 |-> 0, offsetY2 |-> 0]

\* the Webcam and the canvas are rendered only without a captured image
WebcamMounted == mounted /\ capturedImage = NoImage

\* webcamRef.current.getScreenshot(): null without a stream or a frame
getScreenshot == hasUserMedia /\ video # NoVideo

\* the camera-ready event has occurred
CameraReady == IF variant = "part_001" THEN hasUserMedia ELSE isWebcamReady

Phase ==
    IF ~mounted THEN "Unmounted"
    ELSE IF capturedImage # NoImage THEN "Captured"
    ELSE IF ~(modelsLoaded /\ CameraReady) THEN "Initializing"
    ELSE IF runVerdict = "aligned" THEN "Aligned"
    ELSE IF runVerdict = "unaligned" THEN "Unaligned"
    ELSE "Ready"

\* disabled={!modelsLoaded || !isFaceAligned}, rendered without a captured image
CaptureEnabled ==
    mounted /\ capturedImage = NoImage /\ modelsLoaded /\ isFaceAligned

NoTick == [kind |-> "none", ready |-> FALSE, decodable |-> FALSE,
           video |-> NoVideo, results |-> [den |-> NoVideo, faceLandmarks |-> << >>],
           geometry |-> NoGeometry,
           verdict |-> [faceAligned |-> FALSE, debugInfo |-> Keep,
                        userMessage |-> Keep]]


-----------------------------------------------------------------------------
(* The effects that depend on [modelsLoaded, isWebcamReady, capturedImage] *)

\* a cleanup that cancels nothing
EffectCleanupKeep(q, cur) == q

\* the cleanup returned by the start/stop effect
EffectCleanup(q, cur) == Cancel(q, cur)

\* the body of the start/stop effect; part_002 neither cancels before it
\* starts nor has an else branch
EffectBody(v, q, cur, cond) ==
    IF v = "part_002"
    THEN IF cond
         THEN [id |-> NewId(q, cur), q |-> Request(q, cur, TRUE)]
         ELSE [id |-> cur, q |-> q]
    ELSE IF cond
         THEN [id |-> NewId(Cancel(q, cur), cur),
               q |-> Request(Cancel(q, cur), cur, TRUE)]
         ELSE [id |-> cur, q |-> Cancel(q, cur)]

\* part_002's message effect
MessageEffect(ml, wr, ci) ==
    IF ci # NoImage THEN MsgCaptured
    ELSE IF ~ml THEN MsgLoading
    ELSE IF ~wr THEN MsgCamera
    ELSE MsgAlign

\* What a commit of the new state values ml, wr, ci does to the scheduler:
\* the effects run only when a dependency changed (never in part_001, which
\* has no such effect)
Eff(ml, wr, ci) ==
    LET changed == << ml, wr, ci >> # << modelsLoaded, isWebcamReady, capturedImage >>
        cond == ml /\ wr /\ ci = NoImage
        b == EffectBody(variant, EffectCleanup(rafQueue, animationFrameId),
                        animationFrameId, cond)
    IN  IF UsesEffect(variant) /\ changed
        THEN [ id |-> b.id, q |-> b.q,
               stopped |-> IF cond THEN FALSE
                           ELSE IF ci # NoImage THEN TRUE ELSE stopped,
               runVerdict |-> "none",
               userMessage |-> IF variant = "part_002"
                               THEN MessageEffect(ml, wr, ci) ELSE userMessage ]
        ELSE [ id |-> animationFrameId, q |-> rafQueue, stopped |-> stopped,
               runVerdict |-> runVerdict, userMessage |-> userMessage ]

\* handleUserMedia of part_001: cancel, then request a frame for the
\* predictWebcam of the current render, which closes over faceLandmarker
handleUserMedia(q, cur) ==
    [ id |-> NewId(Cancel(q, cur), cur),
      q |-> Request(Cancel(q, cur), cur, faceLandmarker # "null") ]

-----------------------------------------------------------------------------
Init ==
    /\ variant \in Variants
    /\ camera \in SessionFrames
    /\ scene = << >>
    /\ mounted = TRUE
    /\ loadState = "loading"
    /\ faceLandmarker = "null"
    /\ closeCount = 0
    /\ modelsLoaded = FALSE
    /\ isWebcamReady = FALSE
    /\ isFaceAligned = FALSE
    /\ capturedImage = NoImage
    /\ userMessage = IF variant = "part_002" THEN MsgLoading ELSE Keep
    /\ debugInfo = Keep
    /\ hasUserMedia = FALSE
    /\ video = NoVideo
    /\ animationFrameId = 0
    /\ rafQueue = {}
    /\ decodes = {}
    /\ captureCount = 0
    /\ accepted = FALSE
    /\ stopped = FALSE
    /\ tickAfterStop = FALSE
    /\ runVerdict = "none"
    /\ lastCapturePhase = "none"
    /\ retaken = FALSE
    /\ lastTick = NoTick

\* createFaceLandmarker resolves
LoadComplete ==
    /\ loadState = "loading"
    /\ loadState' = "loaded"
    /\ faceLandmarker' = IF variant = "part_001" /\ ~mounted
                         THEN faceLandmarker ELSE "open"
    /\ LET ml == IF mounted THEN TRUE ELSE modelsLoaded
           e == Eff(ml, isWebcamReady, capturedImage)
       IN  /\ modelsLoaded' = ml
           /\ animationFrameId' = e.id
           /\ rafQueue' = e.q
           /\ stopped' = e.stopped
           /\ runVerdict' = e.runVerdict
           /\ userMessage' = e.userMessage
    /\ UNCHANGED << variant, mounted, closeCount, isWebcamReady, isFaceAligned,
                    capturedImage, debugInfo, hasUserMedia, video, decodes,
                    captureCount, camera, scene, accepted, tickAfterStop,
                    lastCapturePhase, retaken, lastTick >>

\* createFaceLandmarker rejects: caught and logged (uncaught in part_001)
LoadFail ==
    /\ loadState = "loading"
    /\ loadState' = "failed"
    /\ UNCHANGED << variant, mounted, faceLandmarker, closeCount, modelsLoaded,
                    isWebcamReady, isFaceAligned, capturedImage, userMessage,
                    debugInfo, hasUserMedia, video, animationFrameId, rafQueue,
                    decodes, captureCount, camera, scene, accepted, stopped,
                    tickAfterStop, runVerdict, lastCapturePhase, retaken,
                    lastTick >>

\* the Webcam obtains its stream and calls onUserMedia
UserMedia ==
    /\ WebcamMounted
    /\ ~hasUserMedia
    /\ hasUserMedia' = TRUE
    /\ IF variant = "part_001"
       THEN LET h == handleUserMedia(rafQueue, animationFrameId)
            IN  /\ animationFrameId' = h.id
                /\ rafQueue' = h.q
                /\ stopped' = FALSE
                /\ runVerdict' = "none"
                /\ UNCHANGED << isWebcamReady, userMessage >>
       ELSE LET e == Eff(modelsLoaded, TRUE, capturedImage)
            IN  /\ isWebcamReady' = TRUE
                /\ animationFrameId' = e.id
                /\ rafQueue' = e.q
                /\ stopped' = e.stopped
                /\ runVerdict' = e.runVerdict
                /\ userMessage' = e.userMessage
    /\ UNCHANGED << variant, mounted, loadState, faceLandmarker, closeCount,
                    modelsLoaded, isFaceAligned, capturedImage, debugInfo,
                    video, decodes, captureCount, camera, scene, accepted,
                    tickAfterStop, lastCapturePhase, retaken, lastTick >>

\* the video element has a current frame (readyState >= 2, videoWidth > 0)
VideoLoaded ==
    /\ hasUserMedia
    /\ video = NoVideo
    /\ video' = camera
    /\ UNCHANGED << variant, mounted, loadState, faceLandmarker, closeCount,
                    modelsLoaded, isWebcamReady, isFaceAligned, capturedImage,
                    userMessage, debugInfo, hasUserMedia, animationFrameId,
                    rafQueue, decodes, captureCount, camera, scene, accepted,
                    stopped, tickAfterStop, runVerdict, lastCapturePhase,
                    retaken, lastTick >>

\* what is in front of the camera changes
SceneChange ==
    /\ mounted
    /\ \E sc \in SessionScenes(variant, camera) :
          /\ sc # scene
          /\ scene' = sc
    /\ UNCHANGED << variant, mounted, loadState, faceLandmarker, closeCount,
                    modelsLoaded, isWebcamReady, isFaceAligned, capturedImage,
                    userMessage, debugInfo, hasUserMedia, video,
                    animationFrameId, rafQueue, decodes, captureCount, camera,
                    accepted, stopped, tickAfterStop, runVerdict,
                    lastCapturePhase, retaken, lastTick >>

\* a guard that does not look at the faceLandmarker
RefsPresentWebcamOnly(e) == WebcamMounted

\* The guard at the top of predictWebcam: the refs (or, in part_001, the
\* faceLandmarker the callback closed over) are there
RefsPresent(e) ==
    IF variant = "part_001"
    THEN e.fl /\ WebcamMounted
    ELSE WebcamMounted /\ faceLandmarker # "null"

\* What one call of predictWebcam does:
\*   "return"        refs missing, no next frame requested
\*   "noRefs"        refs missing, next frame requested
\*   "notDecodable"  readyState < 2 (or videoWidth 0), next frame requested
\*   "threw"         detectForVideo threw: the callback ends there
\*   "published"     verdict published, next frame requested
TickKind(e, throws) ==
    IF ~RefsPresent(e)
    THEN IF variant \in {"FaceCapture", "part_000"} THEN "return" ELSE "noRefs"
    ELSE IF video = NoVideo THEN "notDecodable"
    ELSE IF throws THEN "threw"
    ELSE "published"

\* a callback that asks for the next frame only when it got past the frame guard
ReschedulesPastGuard(kind) == kind \in {"noRefs", "published"}

Reschedules(kind) == kind \in {"noRefs", "notDecodable", "published"}

\* one animation frame callback runs predictWebcam
Tick(e) ==
    \E throws \in BOOLEAN :
       LET kind == TickKind(e, throws)
           q0 == rafQueue \ {e}
           results == detectForVideo(variant, video, scene)
           verdict == Evaluate(variant, results, video[1], video[2])
       IN  /\ throws => (RefsPresent(e) /\ video # NoVideo)
           /\ IF Reschedules(kind)
              THEN /\ animationFrameId' = NewId(q0, animationFrameId)
                   /\ rafQueue' = Request(q0, animationFrameId, e.fl)
              ELSE /\ animationFrameId' = animationFrameId
                   /\ rafQueue' = q0
           /\ IF kind = "published"
              THEN /\ isFaceAligned' = verdict.faceAligned
                   /\ debugInfo' = IF verdict.debugInfo = Keep
                                   THEN debugInfo ELSE verdict.debugInfo
                   /\ userMessage' = IF verdict.userMessage = Keep
                                     THEN userMessage ELSE verdict.userMessage
                   /\ runVerdict' = IF verdict.faceAligned
                                    THEN "aligned" ELSE "unaligned"
              ELSE UNCHANGED << isFaceAligned, debugInfo, userMessage, runVerdict >>
           /\ tickAfterStop' = (tickAfterStop \/ stopped)
           /\ lastTick' =
                 [ kind |-> kind,
                   ready |-> mounted /\ modelsLoaded /\ CameraReady
                                /\ capturedImage = NoImage,
                   decodable |-> WebcamMounted /\ video # NoVideo,
                   video |-> video,
                   results |-> IF kind = "published"
                               THEN results ELSE NoTick.results,
                   geometry |-> IF kind = "published"
                                THEN Geometry(variant, video[1], video[2])
                                ELSE NoTick.geometry,
                   verdict |-> IF kind = "published"
                               THEN verdict ELSE NoTick.verdict ]
           /\ UNCHANGED << variant, mounted, loadState, faceLandmarker,
                           closeCount, modelsLoaded, isWebcamReady,
                           capturedImage, hasUserMedia, video, decodes,
                           captureCount, camera, scene, accepted, stopped,
                           lastCapturePhase, retaken >>

\* the capture button is clicked
handleCapture ==
    /\ CaptureEnabled
    /\ captureCount < MaxCaptures
    /\ captureCount' = captureCount + 1
    /\ retaken' = FALSE
    /\ lastCapturePhase' = IF getScreenshot THEN Phase ELSE lastCapturePhase
    /\ LET imageSrc == IF getScreenshot
                       THEN [req |-> captureCount + 1, kind |-> "screenshot",
                             size |-> 0, offsetX2 |-> 0, offsetY2 |-> 0]
                       ELSE NoImage
       IN  IF Crops(variant)
           THEN \* if (imageSrc) { image.onload = ...; image.src = imageSrc }
                /\ decodes' = IF getScreenshot
                              THEN decodes \cup
                                     { [req |-> captureCount + 1,
                                        width |-> SCREENSHOT_WIDTH,
                                        height |-> SCREENSHOT_HEIGHT] }
                              ELSE decodes
                /\ UNCHANGED << capturedImage, animationFrameId, rafQueue,
                                stopped, runVerdict, userMessage,
                                hasUserMedia, video >>
           ELSE \* setCapturedImage(imageSrc)
                /\ capturedImage' = imageSrc
                /\ decodes' = decodes
                /\ hasUserMedia' = IF imageSrc # NoImage THEN FALSE ELSE hasUserMedia
                /\ video' = IF imageSrc # NoImage THEN NoVideo ELSE video
                /\ IF variant = "part_001"
                   THEN /\ rafQueue' = Cancel(rafQueue, animationFrameId)
                        /\ animationFrameId' = animationFrameId
                        /\ stopped' = TRUE
                        /\ runVerdict' = "none"
                        /\ userMessage' = userMessage
                   ELSE LET e == Eff(modelsLoaded, isWebcamReady, imageSrc)
                        IN  /\ animationFrameId' = e.id
                            /\ rafQueue' = e.q
                            /\ stopped' = e.stopped
                            /\ runVerdict' = e.runVerdict
                            /\ userMessage' = e.userMessage
    /\ UNCHANGED << variant, mounted, loadState, faceLandmarker, closeCount,
                    modelsLoaded, isWebcamReady, isFaceAligned, debugInfo,
                    camera, scene, accepted, tickAfterStop, lastTick >>

\* the square crop of image.onload: size = image.height
CropSize(w, h) == h

\* offsetX = (image.width - size) / 2, doubled; the source y of drawImage is 0
CropOffsetX2(w, h) == w - CropSize(w, h)
CropOffsetY2(w, h) == 0

\* image.onload of a capture request (r is the Image, with its decoded
\* size): crop and setCapturedImage
DecodeComplete(r) ==
    /\ r \in decodes
    /\ decodes' = decodes \ {r}
    /\ LET ci == IF mounted
                 THEN [req |-> r.req, kind |-> "crop",
                       size |-> CropSize(r.width, r.height),
                       offsetX2 |-> CropOffsetX2(r.width, r.height),
                       offsetY2 |-> CropOffsetY2(r.width, r.height)]
                 ELSE capturedImage
           e == Eff(modelsLoaded, isWebcamReady, ci)
       IN  /\ capturedImage' = ci
           /\ animationFrameId' = e.id
           /\ rafQueue' = e.q
           /\ stopped' = e.stopped
           /\ runVerdict' = e.runVerdict
           /\ userMessage' = e.userMessage
           /\ hasUserMedia' = IF mounted THEN FALSE ELSE hasUserMedia
           /\ video' = IF mounted THEN NoVideo ELSE video
    /\ UNCHANGED << variant, mounted, loadState, faceLandmarker, closeCount,
                    modelsLoaded, isWebcamReady, isFaceAligned, debugInfo,
                    captureCount, camera, scene, accepted, tickAfterStop,
                    lastCapturePhase, retaken, lastTick >>

\* the decode fails (no onerror handler) or getContext('2d') gives null:
\* nothing happens
DecodeFail(r) ==
    /\ r \in decodes
    /\ decodes' = decodes \ {r}
    /\ UNCHANGED << variant, mounted, loadState, faceLandmarker, closeCount,
                    modelsLoaded, isWebcamReady, isFaceAligned, capturedImage,
                    userMessage, debugInfo, hasUserMedia, video,
                    animationFrameId, rafQueue, captureCount, camera, scene,
                    accepted, stopped, tickAfterStop, runVerdict,
                    lastCapturePhase, retaken, lastTick >>

\* the retake button is clicked
handleRetake ==
    /\ mounted
    /\ capturedImage # NoImage
    /\ capturedImage' = NoImage
    /\ retaken' = TRUE
    /\ IF variant = "part_001"
       THEN LET h == handleUserMedia(rafQueue, animationFrameId)
            IN  /\ animationFrameId' = h.id
                /\ rafQueue' = h.q
                /\ stopped' = FALSE
                /\ runVerdict' = "none"
                /\ userMessage' = userMessage
       ELSE LET e == Eff(modelsLoaded, isWebcamReady, NoImage)
            IN  /\ animationFrameId' = e.id
                /\ rafQueue' = e.q
                /\ stopped' = e.stopped
                /\ runVerdict' = e.runVerdict
                /\ userMessage' = e.userMessage
    /\ UNCHANGED << variant, mounted, loadState, faceLandmarker, closeCount,
                    modelsLoaded, isWebcamReady, isFaceAligned, debugInfo,
                    hasUserMedia, video, decodes, captureCount, camera, scene,
                    accepted, tickAfterStop, lastCapturePhase, lastTick >>

\* the use-photo button is clicked: the image is logged
handleUsePhoto ==
    /\ mounted
    /\ capturedImage # NoImage
    /\ ~accepted
    /\ accepted' = TRUE
    /\ UNCHANGED << variant, mounted, loadState, faceLandmarker, closeCount,
                    modelsLoaded, isWebcamReady, isFaceAligned, capturedImage,
                    userMessage, debugInfo, hasUserMedia, video,
                    animationFrameId, rafQueue, decodes, captureCount, camera,
                    scene, stopped, tickAfterStop, runVerdict,
                    lastCapturePhase, retaken, lastTick >>

\* the component is torn down: the effect cleanups run (part_001 has none)
Unmount ==
    /\ mounted
    /\ mounted' = FALSE
    /\ hasUserMedia' = FALSE
    /\ video' = NoVideo
    /\ stopped' = TRUE
    /\ runVerdict' = "none"
    /\ IF UsesEffect(variant)
       THEN /\ rafQueue' = EffectCleanup(rafQueue, animationFrameId)
            /\ faceLandmarker' = IF faceLandmarker = "null" THEN "null" ELSE "closed"
            /\ closeCount' = IF faceLandmarker = "null"
                             THEN closeCount ELSE closeCount + 1
       ELSE UNCHANGED << rafQueue, faceLandmarker, closeCount >>
    /\ UNCHANGED << variant, loadState, modelsLoaded, isWebcamReady,
                    isFaceAligned, capturedImage, userMessage, debugInfo,
                    animationFrameId, decodes, captureCount, camera, scene,
                    accepted, tickAfterStop, lastCapturePhase, retaken,
                    lastTick >>

TickNext == \E e \in rafQueue : Tick(e)

Next ==
    \/ LoadComplete
    \/ LoadFail
    \/ UserMedia
    \/ VideoLoaded
    \/ SceneChange
    \/ TickNext
    \/ handleCapture
    \/ \E r \in decodes : DecodeComplete(r)
    \/ \E r \in decodes : DecodeFail(r)
    \/ handleRetake
    \/ handleUsePhoto
    \/ Unmount

Spec == Init /\ [][Next]_vars

-----------------------------------------------------------------------------
(* The evaluation on its own: a session that is ready, with its first      *)
(* frame callback pending, in front of each scene of a bounded set.        *)

EvalFrames == { << 1280, 720 >>, << 640, 480 >>, << 720, 1280 >>, << 1120, 840 >> }

\* centre offsets in pixels, for a frame of height h
EvalOffsetsX(h) == { 0, h \div 10, -(h \div 10), 30, 50, 150, -40, -(h \div 2) }
EvalOffsetsY(h) == { 0, h \div 10, 40, 150 }

\* face widths and heights in pixels, for a frame of height h
EvalSizes(h) ==
    { (3 * h) \div 10, (4 * h) \div 10, (5 * h) \div 10, (9 * h) \div 20,
      (4 * h) \div 7, 128, 160, 192, 220, 250, 280, 300 }

InFrame(face, cam) ==
    \A p \in face : p.x >= 0 /\ p.x <= cam[1] /\ p.y >= 0 /\ p.y <= cam[2]

EvalFaces(v, cam) ==
    { f \in { Face(Centre2(v, cam)[1] + 2 * dx, Centre2(v, cam)[2] + 2 * dy, w, h) :
                dx \in EvalOffsetsX(cam[2]), dy \in EvalOffsetsY(cam[2]),
                w \in EvalSizes(cam[2]), h \in EvalSizes(cam[2]) } :
        InFrame(f, cam) }

EvalScenes(v, cam) ==
    { << >> } \cup { << f >> : f \in EvalFaces(v, cam) }
              \cup { << f, FarFace(v, cam) >> : f \in EvalFaces(v, cam) }

InitEval ==
    /\ variant \in Variants
    /\ camera \in EvalFrames
    /\ scene \in EvalScenes(variant, camera)
    /\ mounted = TRUE
    /\ loadState = "loaded"
    /\ faceLandmarker = "open"
    /\ closeCount = 0
    /\ modelsLoaded = TRUE
    /\ isWebcamReady = UsesEffect(variant)
    /\ isFaceAligned = FALSE
    /\ capturedImage = NoImage
    /\ userMessage = IF variant = "part_002" THEN MsgAlign ELSE Keep
    /\ debugInfo = Keep
    /\ hasUserMedia = TRUE
    /\ video = camera
    /\ animationFrameId = 1
    /\ rafQueue = { [id |-> 1, fl |-> TRUE] }
    /\ decodes = {}
    /\ captureCount = 0
    /\ accepted = FALSE
    /\ stopped = FALSE
    /\ tickAfterStop = FALSE
    /\ runVerdict = "none"
    /\ lastCapturePhase = "none"
    /\ retaken = FALSE
    /\ lastTick = NoTick

SpecEval == InitEval /\ [][TickNext]_vars

\* rAF callbacks run, the camera delivers its stream and frames
Fairness ==
    /\ WF_vars(TickNext)
    /\ WF_vars(UserMedia)
    /\ WF_vars(VideoLoaded)

SpecFair == Init /\ [][Next]_vars /\ Fairness

-----------------------------------------------------------------------------
(* Properties of the session.                                              *)

\* C1: in every variant, once the scheduler has been cancelled (capture
\* stored or teardown) no tick runs until the scheduler is started again.
C1_NoTickAfterCancel == ~tickAfterStop

\* what C1 is about in part_001: a tick that ran after the screen was left
C1_TickAfterTeardown == tickAfterStop /\ ~mounted /\ variant = "part_001"

\* C2: a capture that produced a screenshot was requested in the Aligned
\* state, that is while the latest verdict of the current run is aligned.
C2_CaptureOnlyWhenAligned == lastCapturePhase \in {"none", "Aligned"}

\* C3: while an image is stored the session is Captured: the image is the
\* outcome of a capture request (cropped in the cropping variants), no
\* tick is pending and the capture action is unavailable.
C3_StoredImageMeansCaptured ==
    capturedImage # NoImage =>
        /\ Phase \in {"Captured", "Unmounted"}
        /\ capturedImage.req \in 1 .. captureCount
        /\ capturedImage.kind = IF Crops(variant) THEN "crop" ELSE "screenshot"
        /\ rafQueue = {}
        /\ ~CaptureEnabled

C3_Witness ==
    /\ mounted
    /\ capturedImage # NoImage
    /\ runVerdict = "none"
    /\ lastTick.kind = "published"

\* C4: after a retake the stored image is cleared and the scheduler runs
\* again, so that a fresh verdict is published (unless the screen is left,
\* another capture is requested or the detector throws).
C4_RetakeLeadsToVerdict ==
    (retaken /\ mounted)
        ~> (~retaken \/ ~mounted \/ runVerdict # "none" \/ lastTick.kind = "threw")

\* what C4 is about in the cropping variants: a retake after which an
\* image is stored again without a new capture request
C4_StoredAgainAfterRetake == retaken /\ mounted /\ capturedImage # NoImage

\* C5: a tick that runs when the model is loaded, the camera is ready and
\* the frame is decodable invokes the detector, whichever of load and
\* camera completed first.
C5_ReadyTickInvokesDetector ==
    (lastTick.ready /\ lastTick.decodable)
        => lastTick.kind \in {"published", "threw"}

-----------------------------------------------------------------------------
(* Properties of the evaluation, stated over the last tick: its detection  *)
(* result, its frame and the verdict it published.  The measures below are *)
(* taken from the landmarks directly.                                      *)

Published == lastTick.kind = "published"
TickFaces == Len(lastTick.results.faceLandmarks)
TickW == lastTick.video[1]
TickH == lastTick.video[2]

\* bounding box of the first landmark set, in pixels of the frame
TickXs == { (p.x * TickW) \div lastTick.results.den[1] :
              p \in lastTick.results.faceLandmarks[1] }
TickYs == { (p.y * TickH) \div lastTick.results.den[2] :
              p \in lastTick.results.faceLandmarks[1] }
BoxW == SetMax(TickXs) - SetMin(TickXs)
BoxH == SetMax(TickYs) - SetMin(TickYs)

\* twice the offset of the box centre from the guideline centre
OffX2 == (SetMax(TickXs) + SetMin(TickXs))
            - (IF variant = "part_001" THEN P1_CANVAS_WIDTH ELSE TickW)
OffY2 == (SetMax(TickYs) + SetMin(TickYs))
            - (IF variant = "part_001" THEN P1_CANVAS_HEIGHT ELSE TickH)
Centred == OffX2 = 0 /\ OffY2 = 0

\* the maximum offset: 50 px in part_001, a tenth of the frame height
\* elsewhere; Dist2Sq is the squared distance times four, TenMax is the
\* maximum offset times ten
Dist2Sq == OffX2 * OffX2 + OffY2 * OffY2
TenMax == IF variant = "part_001" THEN 10 * MAX_CENTER_DISTANCE ELSE TickH
DistBelowMax == 25 * Dist2Sq < TenMax * TenMax
DistAtMax == 25 * Dist2Sq = TenMax * TenMax
DistAboveMax == 25 * Dist2Sq > TenMax * TenMax

\* the scale ratio as a rational: the average of width and height over the
\* guideline diameter (2 * h / 2.8, 2 * h / 4 and 0.5 * h), and for the
\* ellipse the average of width / (2 * 640 / 4.8) and height / (2 * 480 / 3.84)
AvgScale ==
    CASE variant = "FaceCapture" -> << 7 * (BoxW + BoxH), 10 * TickH >>
      [] variant = "part_000"    -> << BoxW + BoxH, TickH >>
      [] variant = "part_002"    -> << BoxW + BoxH, TickH >>
      [] variant = "part_001"    -> << 15 * BoxW + 16 * BoxH, 8000 >>
WidthRatio == << 3 * BoxW, 800 >>
HeightRatio == << BoxH, 250 >>

MinScale == << 6, 10 >>
MaxScale == << 10, 10 >>
MidScale == << 8, 10 >>
Inside(r) == RatLT(MinScale, r) /\ RatLT(r, MaxScale)
AtBound(r) == RatEQ(r, MinScale) \/ RatEQ(r, MaxScale)

\* C6: a tick whose detection result has two or more landmark sets
\* publishes not aligned with the one-person-only message, in every variant.
C6_MultipleFacesNeverAligned ==
    (Published /\ TickFaces >= 2) =>
        /\ ~lastTick.verdict.faceAligned
        /\ lastTick.verdict.userMessage = MsgMultiple
        /\ ~isFaceAligned

\* two faces, the first of which is aligned when it is alone
C6_Witness ==
    /\ Published /\ TickFaces = 2
    /\ Centred /\ Inside(AvgScale)
    /\ userMessage = MsgMultiple

\* C7 as stated: aligned iff exactly one face is evaluated, the distance is
\* below the maximum offset and the average scale is inside the range.
C7_AlignedIffDistanceAndAverageScale ==
    Published =>
        (lastTick.verdict.faceAligned
            <=> (TickFaces = 1 /\ DistBelowMax /\ Inside(AvgScale)))

\* C7: aligned iff exactly one face is evaluated, the distance is below the
\* maximum offset and the scale check passes: the average scale inside the
\* range in FaceCapture, part_000 and part_002, each of the width ratio and
\* the height ratio inside the range in part_001.
C7_AlignedIffDistanceAndScale ==
    Published =>
        (lastTick.verdict.faceAligned
            <=> /\ TickFaces = 1
                /\ DistBelowMax
                /\ IF variant = "part_001"
                   THEN Inside(WidthRatio) /\ Inside(HeightRatio)
                   ELSE Inside(AvgScale))

\* 1280x720, radiusY = 180, centred, (width + height) / 2 = 300
C7_Witness ==
    /\ Published /\ TickFaces = 1
    /\ variant = "part_000" /\ lastTick.video = << 1280, 720 >>
    /\ Centred /\ BoxW + BoxH = 600
    /\ lastTick.verdict.faceAligned

\* C8 as stated: one face, centred on the guideline, average scale at the
\* midpoint of the range: aligned in every variant.
C8_CentredMidScaleAligned ==
    (Published /\ TickFaces = 1 /\ Centred /\ RatEQ(AvgScale, MidScale))
        => lastTick.verdict.faceAligned

\* C8: one face, centred on the guideline, average scale at the midpoint of
\* the range: aligned in FaceCapture, part_000 and part_002; in part_001
\* aligned exactly when the width ratio and the height ratio are each
\* inside the range.
C8_CentredMidScaleAlignedPerAxis ==
    (Published /\ TickFaces = 1 /\ Centred /\ RatEQ(AvgScale, MidScale))
        => (lastTick.verdict.faceAligned
               <=> (variant = "part_001"
                       => Inside(WidthRatio) /\ Inside(HeightRatio)))

C8_Witness ==
    /\ Published /\ TickFaces = 1 /\ Centred /\ RatEQ(AvgScale, MidScale)
    /\ variant = "part_001"
    /\ lastTick.verdict.faceAligned

\* C9: a tick whose distance equals the maximum offset, or whose scale
\* ratio (in part_001 also its width or height ratio) equals the minimum or
\* the maximum, publishes not aligned.
C9_BoundaryValuesFail ==
    (/\ Published /\ TickFaces >= 1
     /\ \/ DistAtMax
        \/ AtBound(AvgScale)
        \/ variant = "part_001" /\ (AtBound(WidthRatio) \/ AtBound(HeightRatio)))
        => ~lastTick.verdict.faceAligned

\* the distance is at the maximum and the scale is inside the range
C9_Witness ==
    /\ Published /\ TickFaces = 1
    /\ DistAtMax
    /\ IF variant = "part_001"
       THEN Inside(WidthRatio) /\ Inside(HeightRatio)
       ELSE Inside(AvgScale)
    /\ ~isFaceAligned

\* C10: a tick whose distance is above the maximum offset publishes not
\* aligned, whatever the scale ratio.
C10_FarFaceNotAligned ==
    (Published /\ TickFaces >= 1 /\ DistAboveMax)
        => ~lastTick.verdict.faceAligned

\* 1280x720: 150 px off the centre against 72 px, the scale inside the range
C10_Witness ==
    /\ Published /\ TickFaces = 1
    /\ variant = "part_000" /\ lastTick.video = << 1280, 720 >>
    /\ OffX2 = 300 /\ OffY2 = 0
    /\ Inside(AvgScale)
    /\ ~isFaceAligned

\* C11: a tick whose scale ratio is outside the open range publishes not
\* aligned, whatever the distance.
C11_ScaleOutsideNotAligned ==
    (Published /\ TickFaces >= 1 /\ ~Inside(AvgScale))
        => ~lastTick.verdict.faceAligned

\* a centred face whose scale is above the range
C11_Witness ==
    /\ Published /\ TickFaces = 1
    /\ Centred
    /\ RatLT(MaxScale, AvgScale)
    /\ ~isFaceAligned

\* C12 as stated: a tick with no landmark set publishes not aligned with
\* the no-face reason, and the next tick is requested.
C12_NoFaceReasonPublished ==
    (Published /\ TickFaces = 0) =>
        /\ ~lastTick.verdict.faceAligned
        /\ lastTick.verdict.debugInfo = DbgNoFace
        /\ rafQueue # {}

\* C12: a tick with no landmark set publishes not aligned and the next tick
\* is requested; it shows the no-face text in FaceCapture, part_000 and
\* part_002 (with the fit-face message in part_002) and shows nothing in
\* part_001, which has no such text.
C12_NoFaceNotAligned ==
    (Published /\ TickFaces = 0) =>
        /\ ~lastTick.verdict.faceAligned
        /\ ~isFaceAligned
        /\ IF variant = "part_001"
           THEN lastTick.verdict.debugInfo = Keep
           ELSE lastTick.verdict.debugInfo = DbgNoFace /\ debugInfo = DbgNoFace
        /\ variant = "part_002" => userMessage = MsgAlign
        /\ Cardinality(rafQueue) = 1

C12_Witness ==
    /\ Published /\ TickFaces = 0
    /\ debugInfo = DbgNoFace
    /\ rafQueue # {}

-----------------------------------------------------------------------------
(* The crop on its own: a cropping session with one still image being      *)
(* decoded, for each decoded width and height of a bounded set.            *)

CropSides == { 480, 640, 720, 960, 1080, 1280, 1440, 1920 }

InitCrop ==
    /\ variant \in { v \in Variants : Crops(v) }
    /\ camera = << 1280, 720 >>
    /\ scene = << GoodFace(variant, camera) >>
    /\ mounted = TRUE
    /\ loadState = "loaded"
    /\ faceLandmarker = "open"
    /\ closeCount = 0
    /\ modelsLoaded = TRUE
    /\ isWebcamReady = TRUE
    /\ isFaceAligned = TRUE
    /\ capturedImage = NoImage
    /\ userMessage = IF variant = "part_002" THEN MsgReady ELSE Keep
    /\ debugInfo = DbgMetrics
    /\ hasUserMedia = TRUE
    /\ video = camera
    /\ animationFrameId = 2
    /\ rafQueue = { [id |-> 2, fl |-> TRUE] }
    /\ \E w \in CropSides, h \in CropSides :
          decodes = { [req |-> 1, width |-> w, height |-> h] }
    /\ captureCount = 1
    /\ accepted = FALSE
    /\ stopped = FALSE
    /\ tickAfterStop = FALSE
    /\ runVerdict = "aligned"
    /\ lastCapturePhase = "Aligned"
    /\ retaken = FALSE
    /\ lastTick = [ kind |-> "published", ready |-> TRUE, decodable |-> TRUE,
                    video |-> camera,
                    results |-> detectForVideo(variant, camera, scene),
                    verdict |-> Evaluate(variant,
                                         detectForVideo(variant, camera, scene),
                                         camera[1], camera[2]) ]

NextCrop == \E r \in decodes : DecodeComplete(r)

SpecCrop == InitCrop /\ [][NextCrop]_vars

\* the centred square of side min(w, h), offsets doubled
CropOf(w, h) ==
    [ size |-> IF w < h THEN w ELSE h,
      offsetX2 |-> IF w > h THEN w - h ELSE 0,
      offsetY2 |-> IF h > w THEN h - w ELSE 0 ]

-----------------------------------------------------------------------------
(* What a tick's inputs say the screen should show.                        *)

\* the box centre is in the cropped-off margin (the visible side is the
\* frame height)
InMargin ==
    \/ SetMax(TickXs) + SetMin(TickXs) <= TickW - TickH
    \/ SetMax(TickXs) + SetMin(TickXs) >= TickW + TickH

InputsAligned ==
    /\ TickFaces = 1
    /\ DistBelowMax
    /\ IF variant = "part_001"
       THEN Inside(WidthRatio) /\ Inside(HeightRatio)
       ELSE Inside(AvgScale)

InputsMessage ==
    IF InputsAligned THEN MsgReady
    ELSE IF TickFaces >= 2 THEN MsgMultiple
    ELSE MsgAlign

InputsDebugInfo ==
    IF TickFaces = 0 THEN DbgNoFace
    ELSE IF TickFaces >= 2 THEN DbgMultiple
    ELSE IF InMargin THEN DbgEdge
    ELSE DbgMetrics

\* C14: what is shown after a tick (the aligned flag, the message, the
\* reason text) is determined by that tick's detection result and frame
\* alone, whatever earlier ticks published.  Stated before any capture, when
\* only ticks write these.
C14_VerdictFromInputsOnly ==
    (Published /\ mounted /\ captureCount = 0) =>
        /\ isFaceAligned = InputsAligned
        /\ variant = "part_002" => userMessage = InputsMessage
        /\ variant # "part_001" => debugInfo = InputsDebugInfo

\* the last tick saw a face in the margin and the screen still says ready
C14_StaleReadyMessage ==
    /\ Published /\ mounted /\ captureCount = 0
    /\ variant = "part_002"
    /\ TickFaces = 1 /\ InMargin
    /\ ~isFaceAligned
    /\ userMessage = MsgReady

-----------------------------------------------------------------------------
(* Errors and teardown.                                                    *)

\* the session is live: on screen, no stored image, scheduler not cancelled
Live == mounted /\ capturedImage = NoImage /\ ~stopped

\* C15: when the detector throws in a tick only that tick is lost: the next
\* tick is still requested, so the loop goes on.
C15_ThrowKeepsLoop ==
    (lastTick.kind = "threw" /\ Live) => rafQueue # {}

\* the detector threw and nothing is pending any more
C15_LoopDead ==
    /\ lastTick.kind = "threw" /\ Live
    /\ modelsLoaded /\ hasUserMedia /\ video # NoVideo
    /\ rafQueue = {}

\* C16: a capture attempt that fails (the screenshot is null, or the decode
\* fails or yields no drawing surface) changes nothing: no image is stored
\* and the scheduler keeps its pending tick.
C16_FailedCaptureChangesNothing ==
    [][ /\ (captureCount' = captureCount + 1 /\ ~getScreenshot)
            => /\ capturedImage' = capturedImage
               /\ rafQueue' = rafQueue
               /\ decodes' = decodes
               /\ isFaceAligned' = isFaceAligned
        /\ (decodes' # decodes /\ captureCount' = captureCount
              /\ capturedImage' = capturedImage)
            => rafQueue' = rafQueue
      ]_vars

\* part_001 after a capture click that got no screenshot: the stream is
\* there, no image is stored and no tick is pending
C16_SchedulerLost ==
    /\ variant = "part_001" /\ mounted /\ capturedImage = NoImage
    /\ captureCount > 0 /\ stopped
    /\ hasUserMedia /\ modelsLoaded
    /\ lastTick.kind # "threw"
    /\ rafQueue = {}

\* C17: when the detector fails to load the session stays Initializing:
\* modelsLoaded never becomes true, no tick publishes a verdict and the
\* capture action stays disabled.
C17_LoadFailureStaysInitializing ==
    loadState = "failed" =>
        /\ ~modelsLoaded
        /\ Phase \in {"Initializing", "Unmounted"}
        /\ lastTick.kind \notin {"published", "threw"}
        /\ runVerdict = "none"
        /\ ~isFaceAligned
        /\ ~CaptureEnabled
        /\ capturedImage = NoImage

\* the load has failed, the camera delivers frames and a tick has run
C17_Witness ==
    /\ loadState = "failed" /\ mounted
    /\ hasUserMedia /\ video # NoVideo
    /\ lastTick.kind = "noRefs" /\ lastTick.decodable

\* C18: every detector handle that is created is closed exactly once at
\* teardown, also when teardown comes while the detector is loading.
C18_HandleClosedExactlyOnce ==
    /\ closeCount <= 1
    /\ mounted => closeCount = 0
    /\ (loadState = "loaded" /\ ~mounted) => closeCount = 1

\* torn down while loading: the handle arrived afterwards and stays open
C18_HandleLeaked ==
    /\ UsesEffect(variant)
    /\ ~mounted /\ loadState = "loaded"
    /\ faceLandmarker = "open" /\ closeCount = 0

-----------------------------------------------------------------------------
(* Concurrency of the scheduler and the capture.                           *)

\* C19: at most one scheduler loop exists: whenever the scheduler is
\* started the tick scheduled before is cancelled first, so there is never
\* more than one pending animation frame callback.
C19_AtMostOnePendingTick == Cardinality(rafQueue) <= 1

\* the scheduler was started again after a retake while the run before had
\* published, and one tick is pending
C19_Witness ==
    /\ retaken /\ mounted
    /\ lastTick.kind = "published"
    /\ animationFrameId > 1
    /\ Cardinality(rafQueue) = 1

\* C20: an image is stored only while the most recently published verdict
\* is aligned; an aligned verdict that a later tick has replaced by not
\* aligned does not let the capture through.
C20_StoredOnlyWhileAligned ==
    [][ (capturedImage' # NoImage /\ capturedImage' # capturedImage)
            => isFaceAligned ]_vars

\* an image is stored and the last published verdict is not aligned
C20_StoredWhileUnaligned ==
    /\ mounted /\ capturedImage # NoImage
    /\ lastTick.kind = "published"
    /\ ~lastTick.verdict.faceAligned
    /\ ~isFaceAligned


\* C21: from a capture request until its image decode completes or fails no
\* second capture can be started, so at most one decode is in flight
C21_AtMostOneDecode == Cardinality(decodes) <= 1

\* two captures were requested back to back and both images are still decoding
C21_TwoDecodesInFlight ==
    /\ mounted
    /\ Crops(variant)
    /\ \E r1, r2 \in decodes : r1.req # r2.req

\* C22: while the session is Initializing (the detector load or the camera-ready
\* event is still outstanding) no predictWebcam call is scheduled
C22_NoSchedulerWhileInitializing == Phase = "Initializing" => rafQueue = {}

\* a predictWebcam call has run, and the next one is scheduled, before the
\* detector load completed
C22_TickWhileLoading ==
    /\ Phase = "Initializing"
    /\ ~modelsLoaded
    /\ lastTick.kind = "noRefs"
    /\ rafQueue # {}

\* C23: once the photo is accepted the captured image is never cleared or
\* replaced
C23_AcceptIsTerminal == [][accepted => capturedImage' = capturedImage]_vars

\* the photo was accepted and the session is live again with no image
C23_ClearedAfterAccept ==
    /\ accepted
    /\ mounted
    /\ capturedImage = NoImage


VisibleSide == IF TickW < TickH THEN TickW ELSE TickH
CentreX2 == SetMax(TickXs) + SetMin(TickXs)
InCroppedMargin ==
    \/ CentreX2 <= TickW - VisibleSide
    \/ CentreX2 >= TickW + VisibleSide

\* C25: in every variant a face whose horizontal centre lies in the
\* cropped-off margin is published as not aligned, whatever its distance and
\* scale.
C25_MarginNeverAligned ==
    (Published /\ TickFaces >= 1 /\ InCroppedMargin) =>
        ~lastTick.verdict.faceAligned

\* 1280x720 in part_001: a face of passing width and height whose centre is
\* within 50 px of the canvas centre (320, 240) and at or left of x = 280, the
\* inner edge of the left margin
C25_AlignedInMargin ==
    /\ Published /\ TickFaces = 1
    /\ variant = "part_001" /\ lastTick.video = << 1280, 720 >>
    /\ InCroppedMargin
    /\ lastTick.verdict.faceAligned


\* C26: in the variants that compute a visible square, the square of a tick has
\* side min(width, height), and its horizontal crop offset is
\* (width - side) / 2 for a landscape frame and zero for a portrait frame,
\* where the cropping is along the vertical axis
C26_VisibleSquareIsMinSide ==
    (Published /\ variant # "part_001") =>
        /\ lastTick.geometry.visibleSize = VisibleSide
        /\ lastTick.geometry.offsetX2 = TickW - VisibleSide

\* a portrait frame: the tick takes the frame height for the side of the
\* visible square and a negative horizontal offset
C26_PortraitSquareExceedsFrame ==
    /\ Published /\ variant # "part_001"
    /\ TickW < TickH
    /\ lastTick.geometry.visibleSize > TickW
    /\ lastTick.geometry.offsetX2 < 0

\* C27: the guideline a tick evaluates against is computed from that tick's
\* video frame: its centre is the middle of the frame and its horizontal
\* diameter is the frame size over the configured factor
C27_GuidelineFromFrame ==
    Published =>
        /\ lastTick.geometry.centre2 = lastTick.video
        /\ RatEQ(lastTick.geometry.diameter,
                 CASE variant = "FaceCapture" -> << 20 * TickH, 28 >>
                   [] variant = "part_000"    -> << 20 * TickH, 40 >>
                   [] variant = "part_002"    -> << 5 * TickH, 10 >>
                   [] variant = "part_001"    -> << 200 * TickW, 480 >>)

\* part_001 on a 1280x720 frame: the guideline is the ellipse of the 640x480
\* canvas, centred at (320, 240), and a face centred there is aligned
C27_CanvasGuidelineOnLargerFrame ==
    /\ Published /\ TickFaces = 1
    /\ variant = "part_001" /\ lastTick.video = << 1280, 720 >>
    /\ lastTick.geometry.centre2 = << 640, 480 >>
    /\ CentreX2 = 640
    /\ lastTick.verdict.faceAligned


\* C28: after a retake capturedImage stays empty until a capture is requested
\* after that retake
C28_EmptyAfterRetakeUntilCapture ==
    (retaken /\ mounted) => capturedImage = NoImage

\* the crop of a capture requested before the retake is stored after it, and
\* no decode is pending any more
C28_StaleDecodeStored ==
    /\ retaken /\ mounted
    /\ Crops(variant)
    /\ capturedImage.req > 0
    /\ capturedImage.req <= captureCount
    /\ decodes = {}


\* C29: in FaceCapture, part_000 and part_002, where the maximum centre
\* distance is a tenth of the visible size, the edge-crop check never decides
\* the aligned flag: a single face whose distance check passes has its centre
\* strictly between offsetX and frameWidth - offsetX, so the flag is what the
\* distance and scale checks alone give
C29_EdgeCheckNeverDecides ==
    (Published /\ variant # "part_001" /\ TickFaces = 1) =>
        /\ DistBelowMax => ~InMargin
        /\ lastTick.verdict.faceAligned <=> (DistBelowMax /\ Inside(AvgScale))

\* a landscape frame with a margin on either side: a face off the centre
\* towards the margin, within the maximum distance, is aligned
C29_Witness ==
    /\ Published /\ TickFaces = 1
    /\ variant = "part_002" /\ lastTick.video = << 1280, 720 >>
    /\ OffX2 < 0
    /\ DistBelowMax /\ ~InMargin
    /\ Inside(AvgScale)
    /\ lastTick.verdict.faceAligned

=============================================================================
